---- MODULE Spec2Model ----
(***************************************************************************)
(* A model of lib/secrets.js (class Secrets): the retry handling of        *)
(* getSecret, the name composition of createSecret and the name stripping  *)
(* and tree building of _parseSecrets.                                     *)
(*                                                                         *)
(* A JavaScript string is a sequence of one-character strings, so that     *)
(* String.prototype.replace, split and Array.prototype.join are computed   *)
(* on the text and not on ready-made segments.                             *)
(***************************************************************************)
EXTENDS Integers, Sequences, FiniteSets

VARIABLES
    options,        \* the options object given to the constructor
    NODE_ENV,       \* process.env.NODE_ENV when the constructor ran
    delimiter,      \* this.delimiter
    env,            \* this.env
    namespace,      \* this.namespace
    retryAttempts,  \* this.retryAttempts
    pc,             \* per getSecret call: idle, awaiting, timer, resolved, rejected
    args,           \* per call: the options object the call was made with
    sent,           \* per call: the GetSecretValue parameters sent, in order
    answers,        \* per call: the answers of the store, in order
    outcome,        \* per call: what the returned promise settled with
    list,           \* the secrets the store holds, as given to _parseSecrets
    written,        \* the options.name of the createSecret call that wrote list[1]
    config,         \* _parseSecrets: the map filled by its first loop
    res,            \* _parseSecrets: what the call returned (or that it threw)
    phase           \* "ready" before _parseSecrets ran, "parsed" after

vars == << options, NODE_ENV, delimiter, env, namespace, retryAttempts,
           pc, args, sent, answers, outcome, list, written, config, res, phase >>

instanceVars == << options, NODE_ENV, delimiter, env, namespace >>
retryVars == << retryAttempts, pc, args, sent, answers, outcome >>
parseVars == << list, written, config, res, phase >>

----------------------------------------------------------------------------
(* Bounds of the model. *)

NumCalls == 2       \* getSecret calls made on the one instance
MaxRequests == 6    \* store requests one call may issue before the model stops it
MaxSegments == 4    \* segments a listed secret name is made of
MaxSecrets == 2     \* secrets in the list given to _parseSecrets

Calls == 1..NumCalls

----------------------------------------------------------------------------
(* JavaScript strings. *)

Min(S) == CHOOSE x \in S : \A y \in S : x <= y

\* the places (from 1) where pat occurs in s
Occurrences(s, pat) ==
    { i \in 1..(Len(s) - Len(pat) + 1) :
        \A j \in 1..Len(pat) : s[i + j - 1] = pat[j] }

\* String.prototype.indexOf, from 1; 0 when pat does not occur
IndexOf(s, pat) ==
    IF Occurrences(s, pat) = {} THEN 0 ELSE Min(Occurrences(s, pat))

\* s.replace(pat, '') with a string pattern: the first occurrence only
ReplaceFirst(s, pat) ==
    LET i == IndexOf(s, pat)
    IN  IF i = 0 THEN s
        ELSE SubSeq(s, 1, i - 1) \o SubSeq(s, i + Len(pat), Len(s))

\* s.split(d) for a non-empty separator d
RECURSIVE Split(_, _)
Split(s, d) ==
    LET i == IndexOf(s, d)
    IN  IF i = 0 THEN << s >>
        ELSE << SubSeq(s, 1, i - 1) >> \o Split(SubSeq(s, i + Len(d), Len(s)), d)

\* parts.join(d)
RECURSIVE Join(_, _)
Join(parts, d) ==
    IF parts = << >> THEN << >>
    ELSE IF Len(parts) = 1 THEN parts[1]
    ELSE parts[1] \o d \o Join(Tail(parts), d)

----------------------------------------------------------------------------
(* JavaScript values of the options: undefined, null, a string, an array   *)
(* of strings. A string holds its text as parts[1].                        *)

Undefined == [kind |-> "undefined", parts |-> << >>]
Null == [kind |-> "null", parts |-> << >>]
Str(s) == [kind |-> "string", parts |-> << s >>]
Arr(p) == [kind |-> "array", parts |-> p]

UNDEFINED_TEXT == << "u", "n", "d", "e", "f", "i", "n", "e", "d" >>
NULL_TEXT == << "n", "u", "l", "l" >>

\* the string a value becomes in a concatenation or a template literal
ToString(v) ==
    CASE v.kind = "undefined" -> UNDEFINED_TEXT
      [] v.kind = "null" -> NULL_TEXT
      [] v.kind = "string" -> v.parts[1]
      [] OTHER -> Join(v.parts, << "," >>)

Truthy(v) ==
    CASE v.kind = "string" -> v.parts[1] # << >>
      [] v.kind = "array" -> TRUE
      [] OTHER -> FALSE

\* a || b
Or(a, b) == IF Truthy(a) THEN a ELSE b

\* v.length of a string or an array
Length(v) == IF v.kind = "string" THEN Len(v.parts[1]) ELSE Len(v.parts)

----------------------------------------------------------------------------
(* The constructor. *)

DEFAULT_DELIMITER == Str(<< "/" >>)

CtorDelimiter(o) == ToString(Or(o.delimiter, DEFAULT_DELIMITER))

CtorEnv(o, nodeEnv) == IF o.all THEN Null ELSE Or(o.env, nodeEnv)

\* an array namespace is joined and then overwritten by the array itself
CtorNamespace(o) ==
    IF Truthy(o.namespace) /\ Length(o.namespace) > 0
    THEN o.namespace
    ELSE Undefined

Construct(o, nodeEnv) ==
    /\ options = o
    /\ NODE_ENV = nodeEnv
    /\ delimiter = CtorDelimiter(o)
    /\ env = CtorEnv(o, nodeEnv)
    /\ namespace = CtorNamespace(o)
    /\ retryAttempts = 0

NoOptions ==
    [delimiter |-> Undefined, env |-> Undefined, namespace |-> Undefined,
     all |-> FALSE]

----------------------------------------------------------------------------
(* getSecret. *)

MAX_RETRY_ATTEMPTS == 3

\* this.MAX_RETRY_ATTEMPTS: the accessor is static, so it is a property of
\* the class and not of its instances; read from an instance it is undefined
this_MAX_RETRY_ATTEMPTS == [defined |-> FALSE, n |-> 0]

\* a <= m for a number a; undefined converts to NaN and the test is false
LessOrEqual(a, m) == m.defined /\ a <= m.n

\* the options of a getSecret call; "" stands for a property left out
CallOptions ==
    [id : {"db"}, version : {"", "v1"}, stage : {"", "AWSCURRENT"}, raw : BOOLEAN]

NoArgs == [id |-> "", version |-> "", stage |-> "", raw |-> FALSE]

\* the parameters of the GetSecretValueCommand
Params(o) ==
    [SecretId |-> o.id,
     VersionId |-> IF o.version # "" THEN o.version ELSE "",
     VersionStage |-> IF o.version = "" /\ o.stage # "" THEN o.stage ELSE ""]

\* what the store answers: a secret, or an error; errorMessage "" stands for
\* an error object without that property
Secret(s) == [ok |-> TRUE, SecretString |-> s, code |-> "", errorMessage |-> ""]
Error(c, m) == [ok |-> FALSE, SecretString |-> "", code |-> c, errorMessage |-> m]

StoreSecrets == { Secret("s3cr3t"), Secret("5432") }

RateExceeded == Error("ThrottlingException", "Rate exceeded")

StoreErrors ==
    { RateExceeded,
      Error("AccessDeniedException", "Access denied"),
      Error("ResourceNotFoundException", "") }

Pending == [state |-> "pending", raw |-> FALSE, value |-> Secret("")]
Resolved(raw, secret) == [state |-> "resolved", raw |-> raw, value |-> secret]
Rejected(err) == [state |-> "rejected", raw |-> FALSE, value |-> err]

\* the test of the catch block
\* (variant: the counter is not consulted)
ShouldRetry_NoCeiling(err, attempts) == err.errorMessage = "Rate exceeded"
ShouldRetry(err, attempts) ==
    /\ err.errorMessage # ""
    /\ err.errorMessage = "Rate exceeded"
    /\ LessOrEqual(attempts, this_MAX_RETRY_ATTEMPTS)

\* this.retryAttempts after the catch block
AttemptsAfterCatch(err, attempts) ==
    IF ShouldRetry(err, attempts) THEN attempts + 1 ELSE attempts

\* this.retryAttempts after a successful send
\* (variant: a success gives one attempt back)
AttemptsAfterSuccess_Refund(attempts) == attempts - 1
AttemptsAfterSuccess(attempts) == attempts

\* the state of the call after the catch block
\* (variant: every error is retried)
PcAfterCatch_AnyError(err, attempts) == "timer"
PcAfterCatch(err, attempts) ==
    IF ShouldRetry(err, attempts) THEN "timer" ELSE "rejected"

\* getSecret(options) runs up to its await: called by the user (idle) or by
\* the timer callback with the same options object
GetSecret(c) ==
    /\ pc[c] \in {"idle", "timer"}
    /\ Len(sent[c]) < MaxRequests
    /\ \E o \in CallOptions :
        /\ pc[c] = "timer" => o = args[c]
        /\ args' = [args EXCEPT ![c] = o]
        /\ sent' = [sent EXCEPT ![c] = Append(@, Params(o))]
    /\ pc' = [pc EXCEPT ![c] = "awaiting"]
    /\ UNCHANGED << retryAttempts, answers, outcome >>
    /\ UNCHANGED << instanceVars, parseVars >>

\* the send resolves
StoreSucceeds(c, secret) ==
    /\ pc[c] = "awaiting"
    /\ answers' = [answers EXCEPT ![c] = Append(@, secret)]
    /\ retryAttempts' = AttemptsAfterSuccess(retryAttempts)
    /\ pc' = [pc EXCEPT ![c] = "resolved"]
    /\ outcome' = [outcome EXCEPT ![c] = Resolved(args[c].raw, secret)]
    /\ UNCHANGED << args, sent >>
    /\ UNCHANGED << instanceVars, parseVars >>

\* the send rejects: the catch block
StoreFails(c, err) ==
    /\ pc[c] = "awaiting"
    /\ answers' = [answers EXCEPT ![c] = Append(@, err)]
    /\ retryAttempts' = AttemptsAfterCatch(err, retryAttempts)
    /\ pc' = [pc EXCEPT ![c] = PcAfterCatch(err, retryAttempts)]
    /\ outcome' = [outcome EXCEPT ![c] =
            IF PcAfterCatch(err, retryAttempts) = "rejected"
            THEN Rejected(err) ELSE @]
    /\ UNCHANGED << args, sent >>
    /\ UNCHANGED << instanceVars, parseVars >>

InitRetry ==
    /\ pc = [c \in Calls |-> "idle"]
    /\ args = [c \in Calls |-> NoArgs]
    /\ sent = [c \in Calls |-> << >>]
    /\ answers = [c \in Calls |-> << >>]
    /\ outcome = [c \in Calls |-> Pending]

InitParse ==
    /\ list = << >>
    /\ written = Undefined
    /\ config = << >>
    /\ res = [threw |-> FALSE, tree |-> {}]
    /\ phase = "ready"

Init ==
    /\ Construct(NoOptions, Undefined)
    /\ InitRetry
    /\ InitParse

Next ==
    \E c \in Calls :
        \/ GetSecret(c)
        \/ \E secret \in StoreSecrets : StoreSucceeds(c, secret)
        \/ \E err \in StoreErrors : StoreFails(c, err)

Spec == Init /\ [][Next]_vars

\* every request is answered and every timer fires
FairSpec ==
    /\ Init
    /\ [][Next]_vars
    /\ \A c \in Calls :
        /\ WF_vars(pc[c] = "timer" /\ GetSecret(c))
        /\ WF_vars(\E a \in StoreSecrets \cup StoreErrors :
                     IF a.ok THEN StoreSucceeds(c, a) ELSE StoreFails(c, a))

----------------------------------------------------------------------------
(* The values of the configuration tree. A value is its type and its text; *)
(* a tree is the set of its nodes, each the path from the root and the     *)
(* value there (an object node holds its properties as longer paths).      *)

Val(t, v) == [t |-> t, v |-> v]
UndefinedValue == Val("undefined", "")
ObjectValue == Val("object", "")

Leaf(val) == { [path |-> << >>, val |-> val] }
EmptyObject == Leaf(ObjectValue)

\* the texts JSON.parse accepts, among those the model draws
JSONTexts == { "5432", "0", "null", "{}", "{\"b\":1}" }

\* JSON.parse(raw) for raw \in JSONTexts
JSONParse(raw) ==
    CASE raw = "5432" -> Leaf(Val("number", "5432"))
      [] raw = "0" -> Leaf(Val("number", "0"))
      [] raw = "null" -> Leaf(Val("null", "null"))
      [] raw = "{}" -> EmptyObject
      [] OTHER -> EmptyObject \cup
                  { [path |-> << << "b" >> >>, val |-> Val("number", "1")] }

\* JSON.stringify(val) of a number
JSONStringify(val) == val.v

\* try { JSON.parse(SecretString) } catch { SecretString }
Decode(raw) ==
    IF raw \in JSONTexts THEN JSONParse(raw) ELSE Leaf(Val("string", raw))

ValTruthy(val) ==
    CASE val.t = "object" -> TRUE
      [] val.t = "string" -> val.v # ""
      [] val.t = "number" -> val.v # "0"
      [] OTHER -> FALSE

IsPrefix(p, q) == Len(p) <= Len(q) /\ SubSeq(q, 1, Len(p)) = p

\* obj[key] read through the path of the property
Node(tree, p) ==
    IF \E e \in tree : e.path = p
    THEN (CHOOSE e \in tree : e.path = p).val
    ELSE UndefinedValue

\* obj[key] = value: whatever was there goes, the value and what it holds comes
Assign(tree, p, sub) ==
    { e \in tree : ~IsPrefix(p, e.path) }
        \cup { [path |-> p \o e.path, val |-> e.val] : e \in sub }

----------------------------------------------------------------------------
(* createSecret. *)

\* Array.isArray(options.name) ? options.name.join(delimiter) : options.name
JoinedName(name, d) ==
    IF name.kind = "array" THEN Join(name.parts, d) ELSE ToString(name)

\* params.Name
CreateName(name, d, e, ns) ==
    LET n0 == JoinedName(name, d)
        n1 == IF Truthy(e) THEN ToString(e) \o d \o n0 ELSE n0
    IN  IF Truthy(ns) THEN ToString(ns) \o d \o n1 ELSE n1

\* params.SecretString
CreateSecretString(secrets) ==
    IF secrets.t = "string" THEN secrets.v ELSE JSONStringify(secrets)

\* createSecret(options) without a binary value: the store then holds the secret
CreateSecret(name, secrets) ==
    /\ phase = "ready"
    /\ list' = Append(list, [Name |-> CreateName(name, delimiter, env, namespace),
                             SecretString |-> CreateSecretString(secrets)])
    /\ written' = name
    /\ UNCHANGED << config, res, phase >>
    /\ UNCHANGED << instanceVars, retryVars >>

\* a secret the store holds under any name
ListSecret(name, raw) ==
    /\ phase = "ready"
    /\ list' = Append(list, [Name |-> name, SecretString |-> raw])
    /\ UNCHANGED << written, config, res, phase >>
    /\ UNCHANGED << instanceVars, retryVars >>

----------------------------------------------------------------------------
(* _parseSecrets. *)

\* secret.Name.replace(namespace + delimiter, '').replace(env + delimiter, '')
\* (variant: the namespace is removed without its delimiter)
StripName_NoDelimiter(name, d, e, ns) ==
    ReplaceFirst(ReplaceFirst(name, ToString(ns)), ToString(e) \o d)
StripName(name, d, e, ns) ==
    ReplaceFirst(ReplaceFirst(name, ToString(ns) \o d), ToString(e) \o d)

\* config[name] = value: a new key goes last, a known key keeps its place.
\* (for..in visits keys in this order; the names here are never array indices)
ConfigPut(cfg, name, sub) ==
    IF \E i \in 1..Len(cfg) : cfg[i].name = name
    THEN [i \in 1..Len(cfg) |->
            IF cfg[i].name = name THEN [name |-> name, value |-> sub] ELSE cfg[i]]
    ELSE Append(cfg, [name |-> name, value |-> sub])

\* the first loop: strip each name, decode each value
RECURSIVE FirstLoop(_, _, _, _)
FirstLoop(lst, d, e, ns) ==
    IF lst = << >> THEN << >>
    ELSE LET secret == lst[Len(lst)]
         IN  ConfigPut(FirstLoop(SubSeq(lst, 1, Len(lst) - 1), d, e, ns),
                       StripName(secret.Name, d, e, ns),
                       Decode(secret.SecretString))

\* cache[part] || {}: whether what is there is kept
\* (variant: cache[part] = {} whatever is there)
KeepsExisting_Never(val) == FALSE
KeepsExisting(val) == ValTruthy(val)

\* while (parts.length) { part = parts.shift(); cache = cache[part] = cache[part] || {} }
\* w.cur is the path of cache, w.prim whether cache is a primitive value. The
\* class body is strict code: creating a property on a primitive value throws.
RECURSIVE Walk(_, _)
Walk(w, parts) ==
    IF parts = << >> \/ w.threw THEN w
    ELSE LET q == w.cur \o << Head(parts) >>
             v == Node(w.tree, q)
         IN  IF w.prim
             THEN [w EXCEPT !.threw = TRUE]
             ELSE IF KeepsExisting(v)
             THEN Walk([w EXCEPT !.cur = q, !.prim = (v.t # "object")], Tail(parts))
             ELSE Walk([w EXCEPT !.cur = q, !.tree = Assign(w.tree, q, EmptyObject)],
                       Tail(parts))

\* one pass of the second loop: walk the path of item, then cache[key] = value
PlaceItem(tree, item, sub, d) ==
    LET parts == Split(item, d)
        key == parts[Len(parts)]
        w == Walk([tree |-> tree, cur |-> << >>, prim |-> FALSE, threw |-> FALSE],
                  SubSeq(parts, 1, Len(parts) - 1))
    IN  IF w.threw \/ w.prim
        THEN [threw |-> TRUE, tree |-> {}]
        ELSE [threw |-> FALSE, tree |-> Assign(w.tree, w.cur \o << key >>, sub)]

\* the second loop after k items
RECURSIVE SecondLoop(_, _, _)
SecondLoop(cfg, k, d) ==
    IF k = 0 THEN [threw |-> FALSE, tree |-> {}]
    ELSE LET before == SecondLoop(cfg, k - 1, d)
         IN  IF before.threw THEN before
             ELSE PlaceItem(before.tree, cfg[k].name, cfg[k].value, d)

\* _parseSecrets(list)
ParseSecrets ==
    /\ phase = "ready"
    /\ LET cfg == FirstLoop(list, delimiter, env, namespace)
       IN  /\ config' = cfg
           /\ res' = SecondLoop(cfg, Len(cfg), delimiter)
    /\ phase' = "parsed"
    /\ UNCHANGED << list, written >>
    /\ UNCHANGED << instanceVars, retryVars >>

----------------------------------------------------------------------------
(* One secret under a name of any shape, on an instance of any options.    *)

KeyOptions ==
    [delimiter : {Undefined, Str(<< "." >>)},
     env : {Undefined, Str(<< "p", "x" >>)},
     namespace : {Undefined, Str(<< "x" >>), Arr(<< << "x" >>, << "p" >> >>)},
     all : BOOLEAN]

NodeEnvs == {Undefined, Str(<< "p" >>)}

\* the sequences of 1..n elements of W
RECURSIVE SeqsUpTo(_, _)
SeqsUpTo(W, n) ==
    IF n = 0 THEN {}
    ELSE LET S == SeqsUpTo(W, n - 1)
         IN  { << w >> : w \in W } \cup { Append(s, w) : s \in S, w \in W }

ListedWords == { << "x" >>, << "p" >>, << "p", "x" >>, << "k" >> }
ListedNames(d) == { Join(p, d) : p \in SeqsUpTo(ListedWords, MaxSegments) }

WrittenWords == { << "k" >>, << "x" >>, NULL_TEXT, UNDEFINED_TEXT }
WrittenNames(d) ==
    LET P == SeqsUpTo(WrittenWords, 2)
    IN  { Str(Join(p, d)) : p \in P } \cup { Arr(p) : p \in P }

WrittenValues == { Val("string", "s3cr3t"), Val("number", "5432") }

InitKey ==
    /\ \E o \in KeyOptions, nodeEnv \in NodeEnvs : Construct(o, nodeEnv)
    /\ InitRetry
    /\ InitParse

NextKey ==
    \/ /\ list = << >>
       /\ \E name \in WrittenNames(delimiter), secrets \in WrittenValues :
            CreateSecret(name, secrets)
    \/ /\ list = << >>
       /\ \E name \in ListedNames(delimiter) : ListSecret(name, "s3cr3t")
    \/ ParseSecrets

SpecKey == InitKey /\ [][NextKey]_vars

----------------------------------------------------------------------------
(* Several secrets of one namespace and environment, of any values.        *)

TreeOptions ==
    [delimiter |-> Undefined, env |-> Str(<< "p" >>), namespace |-> Str(<< "x" >>),
     all |-> FALSE]

TreePaths ==
    { << "a" >>, << "b" >>, << "a", "/", "b" >>, << "a", "/", "c" >>,
      << "a", "/", "b", "/", "c" >> }

TreeNames == { << "x", "/", "p", "/" >> \o p : p \in TreePaths }

TreeValues == { "s3cr3t", "5432", "0", "", "{}", "{\"b\":1}" }

InitTree ==
    /\ Construct(TreeOptions, Undefined)
    /\ InitRetry
    /\ InitParse

NextTree ==
    \/ /\ Len(list) < MaxSecrets
       /\ \E name \in TreeNames, raw \in TreeValues : ListSecret(name, raw)
    \/ ParseSecrets

SpecTree == InitTree /\ [][NextTree]_vars

----------------------------------------------------------------------------
(* Properties of getSecret. *)

\* no other call has been made on the instance
OnlyCall(c) == \A d \in Calls \ {c} : pc[d] = "idle"

AllRateExceeded(as) ==
    \A i \in 1..Len(as) : ~as[i].ok /\ as[i].errorMessage = "Rate exceeded"

Settled(c) == pc[c] \in {"resolved", "rejected"}

\* the answer the store gives call c in this step, if it gives one
Answered(c) == pc[c] = "awaiting" /\ Len(answers'[c]) = Len(answers[c]) + 1
NewAnswer(c) == answers'[c][Len(answers'[c])]

\* C1: on a fresh instance a call answered 'Rate exceeded' up to
\* MAX_RETRY_ATTEMPTS times in a row is not rejected but sent again with the
\* same parameters, and when the next answer is a secret the promise resolves
\* with it.
C1_RetriesThenSucceeds ==
    \A c \in Calls :
        OnlyCall(c) =>
            /\ ( /\ answers[c] # << >>
                 /\ Len(answers[c]) <= MAX_RETRY_ATTEMPTS
                 /\ AllRateExceeded(answers[c]) )
                    => /\ pc[c] \in {"timer", "awaiting"}
                       /\ \A i \in 1..Len(sent[c]) : sent[c][i] = Params(args[c])
            /\ ( /\ Len(answers[c]) = MAX_RETRY_ATTEMPTS + 1
                 /\ AllRateExceeded(SubSeq(answers[c], 1, MAX_RETRY_ATTEMPTS))
                 /\ answers[c][MAX_RETRY_ATTEMPTS + 1].ok )
                    => /\ pc[c] = "resolved"
                       /\ outcome[c] = Resolved(args[c].raw,
                                                answers[c][MAX_RETRY_ATTEMPTS + 1])

C3_OtherErrorRejectsAtOnce ==
    [][ \A c \in Calls :
          ( /\ Answered(c)
            /\ ~NewAnswer(c).ok
            /\ NewAnswer(c).errorMessage # "Rate exceeded" )
              => /\ pc'[c] = "rejected"
                 /\ outcome'[c] = Rejected(NewAnswer(c))
                 /\ sent'[c] = sent[c]
                 /\ retryAttempts' = retryAttempts ]_vars

C3_Witness ==
    \E c \in Calls :
        /\ pc[c] = "rejected"
        /\ outcome[c].value.errorMessage = "Access denied"
        /\ Len(sent[c]) = 1
        /\ retryAttempts = 0

----------------------------------------------------------------------------
(* Properties of createSecret and _parseSecrets. *)

\* the value sub and nothing else sits at path in the tree
Holds(tree, path, sub) ==
    { e \in tree : IsPrefix(path, e.path) }
        = { [path |-> path \o e.path, val |-> e.val] : e \in sub }

NamespacePrefix == ToString(namespace) \o delimiter
EnvPrefix == ToString(env) \o delimiter

\* the places of s that an occurrence of pat covers
Covered(s, pat) ==
    { i \in 1..Len(s) : \E o \in Occurrences(s, pat) : o <= i /\ i < o + Len(pat) }

\* s without the places in gone
RECURSIVE Without(_, _, _)
Without(s, gone, i) ==
    IF i > Len(s) THEN << >>
    ELSE (IF i \in gone THEN << >> ELSE << s[i] >>) \o Without(s, gone, i + 1)

\* the name without its namespace prefix and its environment prefix
Unprefixed(name) ==
    Without(name, Covered(name, NamespacePrefix) \cup Covered(name, EnvPrefix), 1)

OnceEach(name) ==
    /\ Truthy(namespace)
    /\ Truthy(env)
    /\ Cardinality(Occurrences(name, NamespacePrefix)) = 1
    /\ Cardinality(Occurrences(name, EnvPrefix)) = 1

Anchored(name) == IsPrefix(NamespacePrefix \o EnvPrefix, name)

ParsedOne == phase = "parsed" /\ Len(list) = 1

PlacedAt(path) ==
    /\ ~res.threw
    /\ Holds(res.tree, path, Decode(list[1].SecretString))

\* C5 as stated: a name that contains the namespace prefix and the
\* environment prefix once each, anywhere, is placed at the path of its other
\* segments in their order.
C5_ContainsOnceEach ==
    (ParsedOne /\ OnceEach(list[1].Name))
        => PlacedAt(Split(Unprefixed(list[1].Name), delimiter))

\* C5 as amended: a name that starts with the namespace prefix, goes on with
\* the environment prefix and contains each once is placed at the path of the
\* segments after them, in their order.
C5_AnchoredOnceEach ==
    (ParsedOne /\ OnceEach(list[1].Name) /\ Anchored(list[1].Name))
        => PlacedAt(Split(SubSeq(list[1].Name,
                                 Len(NamespacePrefix \o EnvPrefix) + 1,
                                 Len(list[1].Name)),
                          delimiter))

C5_Witness ==
    /\ ParsedOne /\ OnceEach(list[1].Name) /\ Anchored(list[1].Name)
    /\ Holds(res.tree, << << "k" >>, << "x" >> >>, Leaf(Val("string", "s3cr3t")))

\* C6: the name createSecret sends, parsed by an instance of the same
\* options, is placed at the path of the name that was given, split on the
\* delimiter.
C6_RoundTrip ==
    (ParsedOne /\ written # Undefined)
        => PlacedAt(Split(JoinedName(written, delimiter), delimiter))

\* C8: with options.all the name createSecret sends carries no environment
\* prefix, and _parseSecrets changes a name by its namespace replacement only.
C8_AllDisablesEnv ==
    (options.all /\ Len(list) = 1)
        => /\ written # Undefined
                => list[1].Name =
                    (IF Truthy(namespace) THEN NamespacePrefix ELSE << >>)
                        \o JoinedName(written, delimiter)
           /\ phase = "parsed"
                => config[1].name = ReplaceFirst(list[1].Name, NamespacePrefix)

Path(i) == Split(config[i].name, delimiter)

StrictPrefix(p, q) == IsPrefix(p, q) /\ p # q

PrefixFree ==
    \A i, j \in 1..Len(config) : i # j => ~IsPrefix(Path(i), Path(j))

\* C7: when no path of the list is the start of another, every value is in
\* the tree at its path, under object nodes, and no pass of the loop removes
\* or replaces what an earlier pass has put.
C7_SharedPrefixesMerge ==
    (phase = "parsed" /\ PrefixFree)
        => /\ ~res.threw
           /\ \A i \in 1..Len(config) :
                /\ Holds(res.tree, Path(i), config[i].value)
                /\ \A n \in 1..(Len(Path(i)) - 1) :
                    Node(res.tree, SubSeq(Path(i), 1, n)) = ObjectValue
           /\ \A k \in 1..Len(config) :
                SecondLoop(config, k - 1, delimiter).tree
                    \subseteq SecondLoop(config, k, delimiter).tree

C7_Witness ==
    /\ phase = "parsed" /\ PrefixFree /\ Len(config) = 2
    /\ Path(1) = << << "a" >>, << "b" >> >>
    /\ Path(2) = << << "a" >>, << "c" >> >>
    /\ Node(res.tree, << << "a" >> >>) = ObjectValue
    /\ Node(res.tree, Path(1)) = Val("string", "s3cr3t")
    /\ Node(res.tree, Path(2)) = Val("number", "5432")

\* C9: of two secrets whose paths are one the start of the other, the one
\* processed last wins and nothing is thrown: the longer path last leaves an
\* object at the shorter path that holds the longer one's value, the shorter
\* path last leaves its value there.
C9_LastWins ==
    (phase = "parsed" /\ Len(config) = 2)
        => /\ StrictPrefix(Path(1), Path(2))
                => /\ ~res.threw
                   /\ Node(res.tree, Path(1)) = ObjectValue
                   /\ Holds(res.tree, Path(2), config[2].value)
           /\ StrictPrefix(Path(2), Path(1))
                => /\ ~res.threw
                   /\ Holds(res.tree, Path(2), config[2].value)

====
